---- MODULE Spec2Model ----
(***************************************************************************)
(* Model of src/exams.py: the Exams CSP encoding of an exam timetable      *)
(* (Exams.__init__), its five binary constraint predicates, the calendar   *)
(* renderer (Exams.display) and the module-level harness loop.             *)
(*                                                                         *)
(* A subject name is a sequence of words, so that the string               *)
(* concatenations subject + ' Theory' and subject + ' Lab' of the source   *)
(* are Append(subject, "Theory") and Append(subject, "Lab"): the plain     *)
(* subject named <<"X", "Theory">> has the same name as the Theory         *)
(* variable of the lab-bearing subject <<"X">>, as "X Theory" has in the   *)
(* source.  A Python dict is a function; its keys are its DOMAIN.          *)
(***************************************************************************)
EXTENDS Integers, Sequences, FiniteSets, TLC

VARIABLES
    catalog,       \* the rows of the csv, in file order
    pc,            \* position in Exams.__init__ / the harness
    subjects,      \* data['Subject'].tolist()
    semesters,     \* self.semesters
    professors,    \* self.professors
    difficulties,  \* self.difficulties
    check_lab,     \* check_lab
    variables,     \* self.variables
    laboratories,  \* self.laboratories
    i,             \* index of the row the for loop of line 32 is at
    neighbors,     \* self.neighbors
    var_to_cons,   \* self.var_to_cons
    call,          \* the arguments (A, a, B, b) of the last predicate evaluation
    rets,          \* what each predicate of var_to_cons[A] returned on call
    method,        \* index in methods of the configuration the harness is at
    result,        \* result of the engine for that configuration
    shown          \* what the harness printed after that configuration

vars == <<catalog, pc, subjects, semesters, professors, difficulties, check_lab,
          variables, laboratories, i, neighbors, var_to_cons,
          call, rets, method, result, shown>>

---------------------------------------------------------------------------
(* Bounds of the model *)

\* longest catalog (number of csv rows)
MaxSubjects == 2
\* predicate evaluations are recorded for values of days 0..MaxEvalDay
MaxEvalDay == 2
\* assignments returned by the engine use days 0..MaxSolveDay
MaxSolveDay == 2

---------------------------------------------------------------------------
(* Program constants *)

\* range(21): the days of the exam period
NumDays == 21
\* range(3): the time slots of a day
NumSlots == 3

\* [(i, j) for i in range(21) for j in range(3)]
Domain == (0 .. NumDays - 1) \X (0 .. NumSlots - 1)

EmptyDict == [k \in {} |-> 0]
\* Python's None, and the state of a variable not yet set
None == [kind |-> "None"]

---------------------------------------------------------------------------
(* Catalogs *)

Names == { <<"X">>, <<"Y">>, <<"X", "Theory">>, <<"X", "Lab">> }
Semesters == {1, 2}
Professors == {"A", "B"}

Records == [name : Names, semester : Semesters, professor : Professors,
            difficult : BOOLEAN, hasLab : BOOLEAN]

Catalogs == UNION { [1 .. n -> Records] : n \in 0 .. MaxSubjects }

\* subject + ' Theory'
TheoryOf(subject) == Append(subject, "Theory")
\* subject + ' Lab'
LabOf(subject) == Append(subject, "Lab")

\* the mutation of LabVars that emits the pair in the wrong order
LabVarsSwapped(subject) == <<LabOf(subject), TheoryOf(subject)>>
\* the two variables line 36 appends for a lab-bearing subject
LabVars(subject) == <<TheoryOf(subject), LabOf(subject)>>

Max(S) == CHOOSE x \in S : \A y \in S : y <= x

\* dict(zip(subjects, column)): a repeated key keeps its last value
DictZip(rows, field) ==
    [n \in { rows[k].name : k \in DOMAIN rows } |->
        rows[Max({ k \in DOMAIN rows : rows[k].name = n })][field]]

\* d[key] = value
DictSet(d, key, value) ==
    [k \in DOMAIN d \cup {key} |-> IF k = key THEN value ELSE d[k]]

\* d without key (the dict after d.pop(key))
DictDel(d, key) == [k \in DOMAIN d \ {key} |-> d[k]]

\* d[theory] = d.pop(subject)
Rekey(d, subject, theory) == DictSet(DictDel(d, subject), theory, d[subject])

Range(s) == { s[k] : k \in DOMAIN s }

---------------------------------------------------------------------------
(* Exams.__init__ *)

InitWith(C) ==
    /\ catalog \in C
    /\ pc = "read"
    /\ subjects = <<>>
    /\ semesters = EmptyDict
    /\ professors = EmptyDict
    /\ difficulties = EmptyDict
    /\ check_lab = EmptyDict
    /\ variables = <<>>
    /\ laboratories = EmptyDict
    /\ i = 1
    /\ neighbors = EmptyDict
    /\ var_to_cons = EmptyDict
    /\ call = None
    /\ rets = <<>>
    /\ method = 0
    /\ result = None
    /\ shown = None

Init == InitWith(Catalogs)

engineVars == <<call, rets, method, result, shown>>
encodingVars == <<neighbors, var_to_cons>>

\* lines 22-30: the columns of the csv become the attribute dicts
ReadCsv ==
    /\ pc = "read"
    /\ subjects' = [k \in DOMAIN catalog |-> catalog[k].name]
    /\ semesters' = DictZip(catalog, "semester")
    /\ professors' = DictZip(catalog, "professor")
    /\ difficulties' = DictZip(catalog, "difficult")
    /\ check_lab' = DictZip(catalog, "hasLab")
    /\ variables' = <<>>
    /\ laboratories' = EmptyDict
    /\ i' = 1
    /\ pc' = "loop"
    /\ UNCHANGED <<catalog, encodingVars, engineVars>>

\* lines 41-42: one iteration of the loop, for a subject without a lab
LoopPlain ==
    /\ pc = "loop"
    /\ i <= Len(subjects)
    /\ ~check_lab[subjects[i]]
    /\ variables' = Append(variables, subjects[i])
    /\ i' = i + 1
    /\ UNCHANGED <<catalog, pc, subjects, semesters, professors, difficulties,
                   check_lab, laboratories, encodingVars, engineVars>>

\* lines 33-40: one iteration of the loop, for a subject with a lab; a pop of
\* a key that is no longer there raises KeyError and leaves what lines 36-37
\* (and the pops before it) already did
LoopLab ==
    /\ pc = "loop"
    /\ i <= Len(subjects)
    /\ check_lab[subjects[i]]
    /\ LET subject == subjects[i]
           theory == TheoryOf(subject)
           lab == LabOf(subject)
       IN  /\ variables' = variables \o LabVars(subject)
           /\ laboratories' = DictSet(laboratories, lab, theory)
           /\ IF subject \notin DOMAIN semesters
              THEN /\ pc' = "KeyError"
                   /\ UNCHANGED <<semesters, professors, difficulties, i>>
              ELSE /\ semesters' = Rekey(semesters, subject, theory)
                   /\ IF subject \notin DOMAIN professors
                      THEN /\ pc' = "KeyError"
                           /\ UNCHANGED <<professors, difficulties, i>>
                      ELSE /\ professors' = Rekey(professors, subject, theory)
                           /\ IF subject \notin DOMAIN difficulties
                              THEN /\ pc' = "KeyError"
                                   /\ UNCHANGED <<difficulties, i>>
                              ELSE /\ difficulties' =
                                          Rekey(difficulties, subject, theory)
                                   /\ i' = i + 1
                                   /\ pc' = pc
    /\ UNCHANGED <<catalog, subjects, check_lab, encodingVars, engineVars>>

\* the predicates lines 49-54 append for var, given the list so far;
\* raised is TRUE when difficulties has no key var (KeyError at line 53)
ConsFor(var, sofar) ==
    LET withLab == IF var \in DOMAIN laboratories \/ var \in Range(laboratories)
                   THEN Append(sofar, "lab_constraint")
                   ELSE sofar
        withSP == withLab \o <<"semester_constraint", "professor_constraint">>
    IN  IF var \in DOMAIN laboratories
        THEN [raised |-> FALSE, cons |-> withLab]
        ELSE IF var \notin DOMAIN difficulties
             THEN [raised |-> TRUE, cons |-> withSP]
             ELSE IF difficulties[var]
                  THEN [raised |-> FALSE,
                        cons |-> Append(withSP, "difficulty_constraint")]
                  ELSE [raised |-> FALSE, cons |-> withSP]

\* lines 48-54: the loop over self.variables from its k-th element on, a name
\* that is in the list twice being visited twice; it stops at a KeyError
RECURSIVE ConsLoop(_, _)
ConsLoop(k, vtc) ==
    IF k > Len(variables)
    THEN [raised |-> FALSE, vtc |-> vtc]
    ELSE LET var == variables[k]
             new == ConsFor(var, vtc[var])
             upd == [vtc EXCEPT ![var] = new.cons]
         IN  IF new.raised
             THEN [raised |-> TRUE, vtc |-> upd]
             ELSE ConsLoop(k + 1, upd)

\* line 44: self.domains, the same 63 values for every variable; nothing in
\* the source changes it after line 44, so it is not kept in the state
domains == [var \in Range(variables) |-> Domain]

\* lines 45-58: neighbors and the per-variable predicate lists
Assemble ==
    /\ pc = "loop"
    /\ i > Len(subjects)
    /\ LET names == Range(variables)
           done == ConsLoop(1, [var \in names |-> <<"slot_constraint">>])
       IN  /\ neighbors' = [var \in names |->
                               SelectSeq(variables, LAMBDA sub : sub # var)]
           /\ var_to_cons' = done.vtc
           /\ pc' = IF done.raised THEN "KeyError" ELSE "built"
    /\ UNCHANGED <<catalog, subjects, semesters, professors, difficulties,
                   check_lab, variables, laboratories, i, engineVars>>

---------------------------------------------------------------------------
(* The constraint predicates.  A value is <<day, slot>>, so a[1] is the      *)
(* source's a[0] and a[2] its a[1].  A predicate returns "True" or "False",  *)
(* or "KeyError" when a dict lookup it makes has no such key.                *)

Bool(x) == IF x THEN "True" ELSE "False"

Abs(n) == IF n < 0 THEN -n ELSE n

\* the mutation of slot_constraint that compares the value a with the variable
\* B instead of its value b, which no value equals
slot_constraint_typo(A, a, B, b) == Bool(TRUE)
\* lines 60-61
slot_constraint(A, a, B, b) == Bool(a # b)

\* the mutation of lab_constraint whose second branch tests the slots the
\* wrong way round (a copy of the first branch's condition)
lab_constraint_copied(A, a, B, b) ==
    IF A \in DOMAIN laboratories /\ laboratories[A] = B
    THEN Bool(a[1] = b[1] /\ a[2] = b[2] + 1)
    ELSE IF B \in DOMAIN laboratories /\ laboratories[B] = A
         THEN Bool(b[1] = a[1] /\ a[2] = b[2] + 1)
         ELSE "True"
\* lines 63-68
lab_constraint(A, a, B, b) ==
    IF A \in DOMAIN laboratories /\ laboratories[A] = B
    THEN Bool(a[1] = b[1] /\ a[2] = b[2] + 1)
    ELSE IF B \in DOMAIN laboratories /\ laboratories[B] = A
         THEN Bool(b[1] = a[1] /\ b[2] = a[2] + 1)
         ELSE "True"

\* lines 70-71: both lookups are made before the comparison
semester_constraint(A, a, B, b) ==
    IF A \notin DOMAIN semesters \/ B \notin DOMAIN semesters
    THEN "KeyError"
    ELSE Bool(semesters[A] # semesters[B] \/ a[1] # b[1])

\* lines 73-74
professor_constraint(A, a, B, b) ==
    IF A \notin DOMAIN professors \/ B \notin DOMAIN professors
    THEN "KeyError"
    ELSE Bool(professors[A] # professors[B] \/ a[1] # b[1])

\* lines 76-77
difficulty_constraint(A, a, B, b) == Bool(Abs(a[1] - b[1]) >= 2)

\* the call con(A, a, B, b) of a predicate of a per-variable list
Apply(con, A, a, B, b) ==
    CASE con = "slot_constraint" -> slot_constraint(A, a, B, b)
      [] con = "lab_constraint" -> lab_constraint(A, a, B, b)
      [] con = "semester_constraint" -> semester_constraint(A, a, B, b)
      [] con = "professor_constraint" -> professor_constraint(A, a, B, b)
      [] con = "difficulty_constraint" -> difficulty_constraint(A, a, B, b)

\* what each predicate of A's list returns on (A, a, B, b)
Results(A, a, B, b) ==
    [k \in 1 .. Len(var_to_cons[A]) |-> Apply(var_to_cons[A][k], A, a, B, b)]

\* the values predicate evaluations are recorded for
EvalDomain == (0 .. MaxEvalDay) \X (0 .. NumSlots - 1)

\* the engine evaluates the predicates of A's list on a value a of A and a
\* value b of a neighbor B of A.  The predicates change nothing, so every
\* evaluation is one on the encoding as built: one is recorded per behaviour.
Evaluate(A, a, B, b) ==
    /\ pc = "built"
    /\ call = None
    /\ A \in Range(variables)
    /\ B \in Range(neighbors[A])
    /\ call' = [kind |-> "call", A |-> A, a |-> a, B |-> B, b |-> b]
    /\ rets' = Results(A, a, B, b)
    /\ UNCHANGED <<catalog, pc, subjects, semesters, professors, difficulties,
                   check_lab, variables, laboratories, i, encodingVars,
                   method, result, shown>>

\* the catalogs the predicates are evaluated on: rows drawn from five
\* subjects, among them a difficult lab-bearing one, two rows of one name and
\* a plain subject named as the Lab variable of another
PredRecords == {
    [name |-> <<"X">>, semester |-> 1, professor |-> "A",
     difficult |-> TRUE, hasLab |-> TRUE],
    [name |-> <<"Y">>, semester |-> 1, professor |-> "B",
     difficult |-> FALSE, hasLab |-> FALSE],
    [name |-> <<"Y">>, semester |-> 2, professor |-> "A",
     difficult |-> TRUE, hasLab |-> FALSE],
    [name |-> <<"X", "Lab">>, semester |-> 2, professor |-> "A",
     difficult |-> FALSE, hasLab |-> FALSE],
    [name |-> <<"Y">>, semester |-> 2, professor |-> "B",
     difficult |-> FALSE, hasLab |-> TRUE] }

PredCatalogs == UNION { [1 .. n -> PredRecords] : n \in 0 .. MaxSubjects }

InitPred == InitWith(PredCatalogs)

NextPred ==
    \/ ReadCsv
    \/ LoopPlain
    \/ LoopLab
    \/ Assemble
    \/ \E A \in Range(variables), B \in Range(variables) :
           \E a \in EvalDomain, b \in EvalDomain : Evaluate(A, a, B, b)

SpecPred == InitPred /\ [][NextPred]_vars

---------------------------------------------------------------------------
(* The harness (lines 100-123) and Exams.display (lines 79-93) *)

\* lines 100-106
methods == << "FC + MRV:", "FC + DOM/WDEG:", "MAC + MRV:", "MAC + DOM/WDEG:",
              "MIN_CONFLICTS:" >>

\* the values of the assignments the engine returns in this model
SolveDomain == (0 .. MaxSolveDay) \X (0 .. NumSlots - 1)

\* asg is a solution: complete, and for every ordered pair of distinct
\* variables (A, B) every predicate of A's list holds on their values
IsSolution(asg) ==
    /\ DOMAIN asg = Range(variables)
    /\ \A A \in DOMAIN asg, B \in DOMAIN asg :
           A # B => \A k \in DOMAIN var_to_cons[A] :
                        Apply(var_to_cons[A][k], A, asg[A], B, asg[B]) = "True"

\* some predicate of some variable's list raises on some neighbor
CanRaise ==
    \E A \in Range(variables), B \in Range(variables) :
        /\ A # B
        /\ \E k \in DOMAIN var_to_cons[A], a \in SolveDomain, b \in SolveDomain :
               Apply(var_to_cons[A][k], A, a, B, b) = "KeyError"

\* what the engine may end with for configuration name: the exception of a
\* predicate it evaluated, a solution, or its failure signal (None); for a
\* backtracking search only when the encoding has no solution, for
\* min-conflicts, which stops after max_steps repairs, whenever there is an
\* assignment in conflict to start from
Outcomes(name) ==
    IF CanRaise
    THEN {[kind |-> "KeyError"]} \cup (IF name = "MIN_CONFLICTS:" THEN {None} ELSE {})
    ELSE LET all == [Range(variables) -> SolveDomain]
             sols == { asg \in all : IsSolution(asg) }
             fail == IF name = "MIN_CONFLICTS:"
                     THEN sols # all
                     ELSE ~\E asg \in [Range(variables) -> Domain] : IsSolution(asg)
         IN  { [kind |-> "assignment", asg |-> asg] : asg \in sols }
             \cup (IF fail THEN {None} ELSE {})

\* exams.infer_assignment(): the solution after a search that found one, and
\* the variables the search left with one value after one that failed
Inferred(res) ==
    IF res.kind = "assignment"
    THEN {res.asg}
    ELSE UNION { [S -> SolveDomain] : S \in SUBSET Range(variables) }

\* lines 79-93: the cells display prints for a dict; on None the call
\* assignment.items() of line 89 raises AttributeError
display(assignment) ==
    IF assignment = None
    THEN [kind |-> "AttributeError"]
    ELSE LET asg == assignment.asg
             \* the subjects whose (day, slot) is a cell (i, j) of the three weeks
             inGrid == { subject \in DOMAIN asg :
                            asg[subject] \in (0 .. 3 * 7 - 1) \X (0 .. NumSlots - 1) }
         IN  [kind |-> "calendar",
              cells |-> { <<asg[subject][1], asg[subject][2], subject>> :
                              subject \in inGrid }]

\* lines 108-123: one iteration of the loop over methods; an exception of the
\* engine or of display ends the program
Iteration(outcome, inferred) ==
    /\ method' = method + 1
    /\ result' = outcome
    /\ IF outcome.kind = "KeyError"
       THEN /\ pc' = "KeyError"
            /\ shown' = None
       ELSE LET arg == IF methods[method + 1] # "MIN_CONFLICTS:"
                       THEN [kind |-> "assignment", asg |-> inferred]
                       ELSE outcome
            IN  /\ shown' = display(arg)
                /\ pc' = IF display(arg).kind = "AttributeError"
                         THEN "AttributeError"
                         ELSE pc
    /\ UNCHANGED <<catalog, subjects, semesters, professors, difficulties,
                   check_lab, variables, laboratories, i, encodingVars,
                   call, rets>>

\* the loop of line 108 is at methods[method + 1]; the engine ends with one of
\* its outcomes
RunMethod ==
    /\ pc = "built"
    /\ method < Len(methods)
    /\ \E outcome \in Outcomes(methods[method + 1]) :
           \E inferred \in Inferred(outcome) : Iteration(outcome, inferred)

\* the catalogs the harness is run on: rows drawn from a difficult lab-bearing
\* subject and three plain ones, two of them of one name
SolveRecords == {
    [name |-> <<"X">>, semester |-> 1, professor |-> "A",
     difficult |-> TRUE, hasLab |-> TRUE],
    [name |-> <<"Y">>, semester |-> 1, professor |-> "B",
     difficult |-> FALSE, hasLab |-> FALSE],
    [name |-> <<"Z">>, semester |-> 2, professor |-> "A",
     difficult |-> FALSE, hasLab |-> FALSE],
    [name |-> <<"Y">>, semester |-> 2, professor |-> "A",
     difficult |-> TRUE, hasLab |-> FALSE] }

SolveCatalogs == UNION { [1 .. n -> SolveRecords] : n \in 0 .. MaxSubjects }

InitSolve == InitWith(SolveCatalogs)

NextSolve ==
    \/ ReadCsv
    \/ LoopPlain
    \/ LoopLab
    \/ Assemble
    \/ RunMethod

SpecSolve == InitSolve /\ [][NextSolve]_vars

Next ==
    \/ ReadCsv
    \/ LoopPlain
    \/ LoopLab
    \/ Assemble

Spec == Init /\ [][Next]_vars

---------------------------------------------------------------------------
(* The builder: claims C1, C2, C7 and C9 *)

\* the names of the catalog's rows are pairwise distinct
DistinctNames(rows) ==
    \A j, k \in DOMAIN rows : rows[j].name = rows[k].name => j = k

\* what the builder is to emit for rows, row by row
RECURSIVE Emitted(_)
Emitted(rows) ==
    IF rows = <<>>
    THEN <<>>
    ELSE LET r == Head(rows)
         IN  (IF r.hasLab
              THEN <<Append(r.name, "Theory"), Append(r.name, "Lab")>>
              ELSE <<r.name>>) \o Emitted(Tail(rows))

\* the lab-bearing rows among the first n rows of the catalog
LabRows(n) == { k \in 1 .. n : catalog[k].hasLab }

\* the for loop of line 32 has not raised
LoopRunning == pc = "loop" \/ pc = "built" \/ (pc = "KeyError" /\ i > Len(subjects))

\* C1: for a catalog with pairwise distinct names the loop raises nothing, and
\* after each of its iterations (so also at its end) the variable list is, in
\* input order, the subject itself for a row without a lab and the adjacent
\* pair Theory, Lab for a row with one, and the lab map holds exactly the
\* entries Lab -> Theory of the lab-bearing rows, one Theory per Lab and no
\* Theory shared by two Labs.
C1_BuilderEmits ==
    (DistinctNames(catalog) /\ pc # "read") =>
        /\ LoopRunning
        /\ variables = Emitted(SubSeq(catalog, 1, i - 1))
        /\ DOMAIN laboratories =
               { Append(catalog[k].name, "Lab") : k \in LabRows(i - 1) }
        /\ \A k \in LabRows(i - 1) :
               laboratories[Append(catalog[k].name, "Lab")] =
                   Append(catalog[k].name, "Theory")
        /\ \A l1, l2 \in DOMAIN laboratories :
               laboratories[l1] = laboratories[l2] => l1 = l2

\* a catalog of distinct names with a plain and a lab-bearing subject is built
C1_Witness ==
    /\ pc = "built"
    /\ DistinctNames(catalog)
    /\ \E j, k \in DOMAIN catalog : catalog[j].hasLab /\ ~catalog[k].hasLab
    /\ Len(variables) = 3

IsLabVar(var) == var \in DOMAIN laboratories

\* the predicate list claim C2 gives a variable
ExpectedCons(var) ==
    <<"slot_constraint">>
    \o (IF IsLabVar(var) \/ \E l \in DOMAIN laboratories : laboratories[l] = var
        THEN <<"lab_constraint">> ELSE <<>>)
    \o (IF ~IsLabVar(var)
        THEN <<"semester_constraint", "professor_constraint">> ELSE <<>>)
    \o (IF ~IsLabVar(var) /\ var \in DOMAIN difficulties /\ difficulties[var]
        THEN <<"difficulty_constraint">> ELSE <<>>)

\* C2: in every built encoding the predicate list of each variable is exactly
\* slot-uniqueness, then lab-ordering iff it is a Lab or the Theory of a Lab,
\* then semester- and professor-uniqueness iff it is not a Lab, then
\* difficulty-separation iff it is not a Lab and is flagged difficult.
C2_PredicateLists ==
    pc = "built" =>
        \A var \in Range(variables) : var_to_cons[var] = ExpectedCons(var)

\* two rows of the catalog have the same name or produce the same variable name
Collides(rows) ==
    \/ ~DistinctNames(rows)
    \/ Cardinality(Range(Emitted(rows))) # Len(Emitted(rows))

\* C7: a catalog whose rows produce colliding variable names is never built
\* (the build fails first), and the variable list never repeats a name.
C7_DuplicatesRejected ==
    /\ Cardinality(Range(variables)) = Len(variables)
    /\ pc = "built" => ~Collides(catalog)

\* C9: in every encoding built from a catalog whose rows have distinct names
\* and produce distinct variable names, each of the three attribute maps is keyed
\* exactly by the non-Lab variables, a plain subject has its own attributes
\* under its own name, a Theory variable has the three attributes of its
\* subject, and the bare name of a lab-bearing subject is not a key.
C9_AttributeKeys ==
    (pc = "built" /\ ~Collides(catalog)) =>
        LET nonLab == { v \in Range(variables) : ~IsLabVar(v) }
            key(r) == IF r.hasLab THEN Append(r.name, "Theory") ELSE r.name
        IN  /\ DOMAIN semesters = nonLab
            /\ DOMAIN professors = nonLab
            /\ DOMAIN difficulties = nonLab
            /\ \A k \in DOMAIN catalog :
                   LET r == catalog[k]
                   IN  /\ semesters[key(r)] = r.semester
                       /\ professors[key(r)] = r.professor
                       /\ difficulties[key(r)] = r.difficult
                       /\ r.hasLab => r.name \notin DOMAIN semesters

---------------------------------------------------------------------------
(* The predicates: claims C3, C4, C5 and C10 *)

\* l is a Lab variable whose registered Theory is t
IsLabOf(l, t) == l \in DOMAIN laboratories /\ laboratories[l] = t

LastSlot == NumSlots - 1

\* C3: on every evaluated pair, lab-ordering returns the same for either order
\* of the pair; for a Lab and its registered Theory it holds iff the days are
\* equal and the Lab's slot is the Theory's plus one; for every other pair it
\* is true; and with the Theory in the last slot it is false, not an error,
\* for every one of the 63 values of the Lab.
C3_LabOrdering ==
    call.kind = "call" =>
        LET A == call.A
            a == call.a
            B == call.B
            b == call.b
        IN  /\ lab_constraint(A, a, B, b) = lab_constraint(B, b, A, a)
            /\ IsLabOf(A, B) =>
                   lab_constraint(A, a, B, b) = Bool(a[1] = b[1] /\ a[2] = b[2] + 1)
            /\ IsLabOf(B, A) =>
                   lab_constraint(A, a, B, b) = Bool(b[1] = a[1] /\ b[2] = a[2] + 1)
            /\ (~IsLabOf(A, B) /\ ~IsLabOf(B, A)) =>
                   lab_constraint(A, a, B, b) = "True"
            /\ (IsLabOf(A, B) /\ b[2] = LastSlot) =>
                   \A v \in Domain : /\ lab_constraint(A, v, B, b) = "False"
                                     /\ lab_constraint(B, b, A, v) = "False"
            /\ (IsLabOf(B, A) /\ a[2] = LastSlot) =>
                   \A v \in Domain : /\ lab_constraint(A, a, B, v) = "False"
                                     /\ lab_constraint(B, v, A, a) = "False"

\* a Theory in the last slot was evaluated against its Lab, and a Lab against
\* its Theory on the one value pair that satisfies lab-ordering
C3_Witness ==
    /\ call.kind = "call"
    /\ IsLabOf(call.B, call.A)
    /\ call.a[2] = LastSlot
    /\ call.a[1] = call.b[1]
    /\ \E k \in DOMAIN rets : /\ var_to_cons[call.A][k] = "lab_constraint"
                              /\ rets[k] = "False"

\* C4: every predicate of A's list returns a boolean on every neighbor B and
\* every pair of values; none ends in an error.
C4_PredicatesTotal ==
    call.kind = "call" => \A k \in DOMAIN rets : rets[k] \in {"True", "False"}

\* C5: where A carries difficulty-separation, it holds on a non-Lab B iff the
\* days are at least 2 apart, and it holds on a Lab B whatever the two values.
C5_DifficultySeparation ==
    call.kind = "call" =>
        \A k \in DOMAIN rets :
            var_to_cons[call.A][k] = "difficulty_constraint" =>
                IF IsLabVar(call.B)
                THEN rets[k] = "True"
                ELSE rets[k] = Bool(Abs(call.a[1] - call.b[1]) >= 2)

\* every predicate of A's list holds on (A, a, B, b)
AllHold(A, a, B, b) ==
    \A k \in DOMAIN var_to_cons[A] : Apply(var_to_cons[A][k], A, a, B, b) = "True"

\* C10: in a built encoding every difficult Theory and its own Lab have a pair
\* of domain values on which all predicates of both lists hold together.
C10_LabPairSatisfiable ==
    pc = "built" =>
        \A l \in DOMAIN laboratories :
            LET t == laboratories[l]
            IN  (t \in DOMAIN difficulties /\ difficulties[t]) =>
                    \E a \in Domain, b \in Domain :
                        AllHold(t, a, l, b) /\ AllHold(l, b, t, a)

---------------------------------------------------------------------------
(* The harness: claims C6 and C8 *)

\* C6: in every assignment a configuration returns as a solution no two
\* distinct variables have the same (day, slot).
C6_SlotsUnique ==
    result.kind = "assignment" =>
        \A A \in DOMAIN result.asg, B \in DOMAIN result.asg :
            A # B => result.asg[A] # result.asg[B]

\* a configuration returned a solution for two variables on the same day
C6_Witness ==
    /\ result.kind = "assignment"
    /\ \E A \in DOMAIN result.asg, B \in DOMAIN result.asg :
           A # B /\ result.asg[A][1] = result.asg[B][1]

\* C8: after a configuration that reported no solution (here for a catalog
\* whose rows have distinct names and produce distinct variable names) the
\* harness has printed a notice that is no calendar and has not crashed, so
\* that it goes on to the configurations that remain.
C8_FailureReported ==
    (method >= 1 /\ result = None /\ ~Collides(catalog)) =>
        /\ shown.kind = "no solution"
        /\ pc = "built"

====
